---------------------------- MODULE Spec2Model ----------------------------
(***************************************************************************)
(* Model of the price-interval editor and the Price record of the Orb      *)
(* billing client (src/client/price_intervals.rs, src/client/prices.rs).   *)
(*                                                                         *)
(* Three specifications share the module:                                  *)
(*   SpecSer    serialization of AddEditPriceIntervalParams values         *)
(*   SpecPrice  serialization and deserialization of Price values          *)
(*   Spec       concurrent invocations of Client::add_edit_price_intervals *)
(***************************************************************************)
EXTENDS Integers, Sequences, FiniteSets, TLC

VARIABLES
    serParams,   \* SpecSer: the AddEditPriceIntervalParams value under test
    serJson,     \* SpecSer: None, or Some(its JSON serialization)
    price,       \* SpecPrice: the Price value under test
    priceJson,   \* SpecPrice: None, or Some(its JSON serialization)
    priceBack,   \* SpecPrice: None, or Some(result of deserializing priceJson)
    client,      \* Spec: the shared Client (&self)
    calls,       \* Spec: per invocation, the future's position and locals
    sends        \* Spec: per invocation, the requests handed to send_request

vars == <<serParams, serJson, price, priceJson, priceBack, client, calls, sends>>

(***************************************************************************)
(* Bounds of the model.                                                    *)
(***************************************************************************)
MaxAdjustments == 2     \* longest add_adjustments list
MaxUnits == 1           \* longest add / edit / edit_adjustments list
NumCalls == 2           \* concurrent invocations on the shared client

(***************************************************************************)
(* Option<T>.                                                              *)
(***************************************************************************)
None == [some |-> FALSE]
Some(x) == [some |-> TRUE, v |-> x]

(***************************************************************************)
(* JSON values as serde_json produces them.                                *)
(***************************************************************************)
JNull == [t |-> "null"]
JStr(s) == [t |-> "string", v |-> s]
JNum(n) == [t |-> "number", v |-> n]
JArr(s) == [t |-> "array", v |-> s]
JObj(f) == [t |-> "object", v |-> f]

(***************************************************************************)
(* Input domains.                                                          *)
(***************************************************************************)
\* Vec<&str> values for applies_to_price_ids.
PriceIdLists == {<<"price_1", "price_2">>}

\* f64 values, written as their shortest decimal literal; NaN and the
\* infinities are f64 values as well.
F64 == {"0.1", "NaN", "inf"}
NonFinite == {"NaN", "inf", "-inf"}

\* &str values for amount_discount.
Amounts == {"10.00"}

\* OffsetDateTime values (instants RFC 3339 can represent).
StartDates == {[date |-> "2024-01-01", time |-> "00:00:00", offset |-> "Z"]}
EndDates == {[date |-> "2024-06-30", time |-> "23:59:59", offset |-> "+02:00"]}

OptionOf(S) == {None} \cup {Some(x) : x \in S}

\* enum NewAdjustment<'a>
NewAdjustment ==
    [variant : {"PercentageDiscount"},
     applies_to_price_ids : PriceIdLists,
     percentage_discount : F64]
    \cup
    [variant : {"AmountDiscount"},
     applies_to_price_ids : PriceIdLists,
     amount_discount : Amounts]

\* struct AddAdjustmentIntervalParams<'a>
AddAdjustmentIntervalParams ==
    [adjustment : NewAdjustment,
     start_date : OptionOf(StartDates),
     end_date : OptionOf(EndDates)]

SeqsUpTo(S, n) == UNION {[1..k -> S] : k \in 0..n}

\* struct AddEditPriceIntervalParams<'a>; () is the only value of the unit type.
Unit == "()"
AddEditPriceIntervalParams ==
    [add_adjustments : SeqsUpTo(AddAdjustmentIntervalParams, MaxAdjustments),
     add : SeqsUpTo({Unit}, MaxUnits),
     edit : SeqsUpTo({Unit}, MaxUnits),
     edit_adjustments : SeqsUpTo({Unit}, MaxUnits)]

\* #[derive(Default)]: every Vec is Vec::new().
DefaultParams ==
    [add_adjustments |-> <<>>, add |-> <<>>, edit |-> <<>>, edit_adjustments |-> <<>>]

(***************************************************************************)
(* Serialization (#[derive(Serialize)] driven by serde_json).              *)
(***************************************************************************)
\* time::serde::rfc3339: <date>T<time><offset>
Rfc3339(d) == d.date \o "T" \o d.time \o d.offset

\* f64: a JSON number when finite, null otherwise.
SerializeF64(x) == IF x \in NonFinite THEN JNull ELSE JNum(x)

\* Vec<&str>: an array of strings, in order.
SerializeStrVec(s) == JArr([i \in 1..Len(s) |-> JStr(s[i])])

\* Variant of SerializeUnitVec that writes an empty array whatever the list holds.
SerializeUnitVecEmpty(s) == JArr(<<>>)

\* Vec<()>: an array with one null per unit value.
SerializeUnitVec(s) == JArr([i \in 1..Len(s) |-> JNull])

\* Variant of SerializeNewAdjustment that writes amount_discount as a number.
SerializeNewAdjustmentNumericAmount(a) ==
    IF a.variant = "PercentageDiscount"
    THEN JObj([adjustment_type |-> JStr("percentage_discount"),
               applies_to_price_ids |-> SerializeStrVec(a.applies_to_price_ids),
               percentage_discount |-> SerializeF64(a.percentage_discount)])
    ELSE JObj([adjustment_type |-> JStr("amount_discount"),
               applies_to_price_ids |-> SerializeStrVec(a.applies_to_price_ids),
               amount_discount |-> JNum(a.amount_discount)])

\* NewAdjustment, #[serde(tag = "adjustment_type")] with renamed variants.
SerializeNewAdjustment(a) ==
    IF a.variant = "PercentageDiscount"
    THEN JObj([adjustment_type |-> JStr("percentage_discount"),
               applies_to_price_ids |-> SerializeStrVec(a.applies_to_price_ids),
               percentage_discount |-> SerializeF64(a.percentage_discount)])
    ELSE JObj([adjustment_type |-> JStr("amount_discount"),
               applies_to_price_ids |-> SerializeStrVec(a.applies_to_price_ids),
               amount_discount |-> JStr(a.amount_discount)])

\* AddAdjustmentIntervalParams: the dates are skipped when None.
AdjustmentIntervalKeys(p) ==
    {"adjustment"}
    \cup (IF p.start_date.some THEN {"start_date"} ELSE {})
    \cup (IF p.end_date.some THEN {"end_date"} ELSE {})

\* Variant of SerializeAddAdjustmentIntervalParams without skip_serializing_if:
\* an unset date is written as null.
SerializeAddAdjustmentIntervalParamsNullDates(p) ==
    JObj([adjustment |-> SerializeNewAdjustment(p.adjustment),
          start_date |-> IF p.start_date.some
                         THEN JStr(Rfc3339(p.start_date.v)) ELSE JNull,
          end_date |-> IF p.end_date.some
                       THEN JStr(Rfc3339(p.end_date.v)) ELSE JNull])

SerializeAddAdjustmentIntervalParams(p) ==
    JObj([k \in AdjustmentIntervalKeys(p) |->
            CASE k = "adjustment" -> SerializeNewAdjustment(p.adjustment)
              [] k = "start_date" -> JStr(Rfc3339(p.start_date.v))
              [] k = "end_date" -> JStr(Rfc3339(p.end_date.v))])

\* Variant of SerializeAddAdjustments that writes the entries last to first.
SerializeAddAdjustmentsReversed(s) ==
    JArr([i \in 1..Len(s) |-> SerializeAddAdjustmentIntervalParams(s[Len(s) + 1 - i])])

\* Vec<AddAdjustmentIntervalParams>: an array of the entries, in order.
SerializeAddAdjustments(s) ==
    JArr([i \in 1..Len(s) |-> SerializeAddAdjustmentIntervalParams(s[i])])

\* Variant of SerializeAddEditPriceIntervalParams that skips empty lists
\* (skip_serializing_if = "Vec::is_empty").
SerializeAddEditPriceIntervalParamsSkippingEmpty(p) ==
    JObj([k \in {f \in {"add_adjustments", "add", "edit", "edit_adjustments"} :
                    p[f] # <<>>} |->
            IF k = "add_adjustments"
            THEN SerializeAddAdjustments(p.add_adjustments)
            ELSE SerializeUnitVec(p[k])])

\* AddEditPriceIntervalParams: four fields, none skipped.
SerializeAddEditPriceIntervalParams(p) ==
    JObj([add_adjustments |-> SerializeAddAdjustments(p.add_adjustments),
          add |-> SerializeUnitVec(p.add),
          edit |-> SerializeUnitVec(p.edit),
          edit_adjustments |-> SerializeUnitVec(p.edit_adjustments)])

\* The shared client: requests are built on its fixed base path.
TheClient == [base |-> <<"v1">>]

(***************************************************************************)
(* SpecSer: a caller constructs a params value and serializes it.          *)
(***************************************************************************)
IdlePrice == [id |-> "", external_price_id |-> None]

SerInit ==
    /\ serParams \in AddEditPriceIntervalParams
    /\ serJson = None
    /\ price = IdlePrice /\ priceJson = None /\ priceBack = None
    /\ client = TheClient
    /\ calls = <<>> /\ sends = <<>>

ToJson ==
    /\ ~serJson.some
    /\ serJson' = Some(SerializeAddEditPriceIntervalParams(serParams))
    /\ UNCHANGED <<serParams, price, priceJson, priceBack, client, calls, sends>>

SerNext == ToJson

SpecSer == SerInit /\ [][SerNext]_vars

(***************************************************************************)
(* Price (src/client/prices.rs).                                           *)
(***************************************************************************)
Ok(x) == [ok |-> TRUE, v |-> x]
Err(e) == [ok |-> FALSE, err |-> e]

\* String values for Price::id and Price::external_price_id.
IdStrings == {"price_1", "price_2", "price_3", "8tz4mKL", "a b", ""}
ExternalIdStrings == {"ext_1", "ext_2", "plan-basic", "plan-pro", "null", ""}

\* struct Price
Price == [id : IdStrings, external_price_id : OptionOf(ExternalIdStrings)]

\* Variant of SerializeOptionString that writes None as the empty string.
SerializeOptionStringAsEmpty(o) == IF o.some THEN JStr(o.v) ELSE JStr("")

\* Option<String> without skip_serializing_if: null when None.
SerializeOptionString(o) == IF o.some THEN JStr(o.v) ELSE JNull

\* #[derive(Serialize)] for Price: both fields are always written.
SerializePrice(p) ==
    JObj([id |-> JStr(p.id),
          external_price_id |-> SerializeOptionString(p.external_price_id)])

\* Option<String> from a JSON value: null is None, a string is Some.
DeserializeOptionString(j) ==
    CASE j.t = "null" -> Ok(None)
      [] j.t = "string" -> Ok(Some(j.v))
      [] OTHER -> Err("invalid type")

\* #[derive(Deserialize)] for Price: id is required, a missing Option field is
\* None, unknown keys are ignored.
DeserializePrice(j) ==
    IF j.t # "object" THEN Err("invalid type")
    ELSE IF "id" \notin DOMAIN j.v THEN Err("missing field id")
    ELSE IF j.v["id"].t # "string" THEN Err("invalid type")
    ELSE LET ext == IF "external_price_id" \in DOMAIN j.v
                    THEN DeserializeOptionString(j.v["external_price_id"])
                    ELSE Ok(None)
         IN IF ext.ok
            THEN Ok([id |-> j.v["id"].v, external_price_id |-> ext.v])
            ELSE ext

PriceInit ==
    /\ price \in Price
    /\ priceJson = None /\ priceBack = None
    /\ serParams = DefaultParams /\ serJson = None
    /\ client = TheClient
    /\ calls = <<>> /\ sends = <<>>

PriceToJson ==
    /\ ~priceJson.some
    /\ priceJson' = Some(SerializePrice(price))
    /\ UNCHANGED <<price, priceBack, serParams, serJson, client, calls, sends>>

PriceFromJson ==
    /\ priceJson.some /\ ~priceBack.some
    /\ priceBack' = Some(DeserializePrice(priceJson.v))
    /\ UNCHANGED <<price, priceJson, serParams, serJson, client, calls, sends>>

PriceNext == PriceToJson \/ PriceFromJson

SpecPrice == PriceInit /\ [][PriceNext]_vars

(***************************************************************************)
(* Client::add_edit_price_intervals (src/client/price_intervals.rs).       *)
(***************************************************************************)
Calls == 1..NumCalls

\* subscription_id arguments.
SubscriptionIds == {"sub_123", "sub_456"}

\* params arguments.
SampleAdjustment ==
    [adjustment |-> [variant |-> "PercentageDiscount",
                     applies_to_price_ids |-> <<"price_1">>,
                     percentage_discount |-> "0.1"],
     start_date |-> Some([date |-> "2024-01-01", time |-> "00:00:00", offset |-> "Z"]),
     end_date |-> None]
SampleParams ==
    {DefaultParams, [DefaultParams EXCEPT !.add_adjustments = <<SampleAdjustment>>]}

\* Subscription records the server can report.
Subscriptions == {"subscription_v1", "subscription_v2"}

\* Error kinds send_request can fail with.
ErrorKinds == {"Transport", "Decode", "Api"}

\* Outcomes of send_request::<Subscription>.
SendOutcomes == {Ok(s) : s \in Subscriptions} \cup {Err(k) : k \in ErrorKinds}

\* Client::build_request(method, path): the segments are appended to the base.
build_request(cl, method, path) ==
    [method |-> method, path |-> cl.base \o path, body |-> None]

\* Variant of PathSegments with the last two segments exchanged.
PathSegmentsMisordered(subscription_id) ==
    <<"subscriptions", "price_intervals", subscription_id>>

\* The path segments of line 90.
PathSegments(subscription_id) ==
    <<"subscriptions", subscription_id, "price_intervals">>

\* RequestBuilder::json(params): the body is the JSON serialization of params.
json(req, params) ==
    [req EXCEPT !.body = Some(SerializeAddEditPriceIntervalParams(params))]

\* Variant of Propagate that reports every failure as a transport error.
PropagateCollapsing(res) == IF res.ok THEN Ok(res.v) ELSE Err("Transport")

\* `send_request(req).await?` followed by `Ok(res)`: an Err is returned as it
\* is, an Ok value is wrapped again.
Propagate(res) == IF res.ok THEN Ok(res.v) ELSE Err(res.err)

IdleCall == [pc |-> "idle", args |-> None, req |-> None, res |-> None, result |-> None]

Init ==
    /\ client = TheClient
    /\ calls = [c \in Calls |-> IdleCall]
    /\ sends = [c \in Calls |-> <<>>]
    /\ serParams = DefaultParams /\ serJson = None
    /\ price = IdlePrice /\ priceJson = None /\ priceBack = None

Unused == <<serParams, serJson, price, priceJson, priceBack>>

\* A caller invokes add_edit_price_intervals(&self, subscription_id, params).
Invoke(c, subscription_id, params) ==
    /\ calls[c].pc = "idle"
    /\ calls' = [calls EXCEPT ![c].pc = "entered",
                              ![c].args = Some([subscription_id |-> subscription_id,
                                                params |-> params])]
    /\ UNCHANGED <<client, sends, Unused>>

\* let req = self.build_request(Method::POST, [...]);
BuildRequest(c) ==
    /\ calls[c].pc = "entered"
    /\ calls' = [calls EXCEPT
                   ![c].pc = "built",
                   ![c].req = Some(build_request(client, "POST",
                                     PathSegments(calls[c].args.v.subscription_id)))]
    /\ UNCHANGED <<client, sends, Unused>>

\* Variant of AttachJson that moves the adjustments out of the caller's params.
AttachJsonTakingParams(c) ==
    /\ calls[c].pc = "built"
    /\ calls' = [calls EXCEPT
                   ![c].pc = "ready",
                   ![c].req = Some(json(calls[c].req.v, calls[c].args.v.params)),
                   ![c].args = Some([calls[c].args.v EXCEPT !.params = DefaultParams])]
    /\ UNCHANGED <<client, sends, Unused>>

\* let req = req.json(params);
AttachJson(c) ==
    /\ calls[c].pc = "built"
    /\ calls' = [calls EXCEPT
                   ![c].pc = "ready",
                   ![c].req = Some(json(calls[c].req.v, calls[c].args.v.params))]
    /\ UNCHANGED <<client, sends, Unused>>

\* self.send_request(req): the request is handed to the shared client.
SendRequest(c) ==
    /\ calls[c].pc = "ready"
    /\ sends' = [sends EXCEPT ![c] = Append(@, calls[c].req.v)]
    /\ calls' = [calls EXCEPT ![c].pc = "awaiting", ![c].req = None]
    /\ UNCHANGED <<client, Unused>>

\* send_request resolves: the decoded Subscription, or an error of one kind.
SendRequestResolves(c, outcome) ==
    /\ calls[c].pc = "awaiting"
    /\ calls' = [calls EXCEPT ![c].pc = "resolved", ![c].res = Some(outcome)]
    /\ UNCHANGED <<client, sends, Unused>>

\* Variant of Return that starts over when send_request failed.
ReturnRetrying(c) ==
    /\ calls[c].pc = "resolved"
    /\ calls' = IF calls[c].res.v.ok
                THEN [calls EXCEPT ![c].pc = "done",
                                   ![c].result = Some(Propagate(calls[c].res.v))]
                ELSE [calls EXCEPT ![c].pc = "entered", ![c].res = None]
    /\ UNCHANGED <<client, sends, Unused>>

\* `.await?` and `Ok(res)`: the function returns.
Return(c) ==
    /\ calls[c].pc = "resolved"
    /\ calls' = [calls EXCEPT ![c].pc = "done",
                              ![c].result = Some(Propagate(calls[c].res.v))]
    /\ UNCHANGED <<client, sends, Unused>>

Next ==
    \E c \in Calls :
        \/ \E sid \in SubscriptionIds, p \in SampleParams : Invoke(c, sid, p)
        \/ BuildRequest(c)
        \/ AttachJson(c)
        \/ SendRequest(c)
        \/ \E o \in SendOutcomes : SendRequestResolves(c, o)
        \/ Return(c)

Spec == Init /\ [][Next]_vars

(***************************************************************************)
(* Properties of serialization, checked under SpecSer.                     *)
(***************************************************************************)
SerList == serParams.add_adjustments
SerBody == serJson.v.v                          \* the top-level JSON object
SerEntry(i) == SerBody["add_adjustments"].v[i].v  \* the i-th entry's JSON object
SerAdjustment(i) == SerEntry(i)["adjustment"].v   \* its adjustment's JSON object

\* The RFC 3339 renderings of the dates of the model, written out.
Rfc3339Literals == {"2024-01-01T00:00:00Z", "2024-06-30T23:59:59+02:00"}

DateKeyAsClaimed(o, key, field) ==
    /\ (key \in DOMAIN o) <=> field.some
    /\ field.some => /\ o[key].t = "string"
                     /\ o[key].v = Rfc3339(field.v)
                     /\ o[key].v \in Rfc3339Literals

\* C1: for each of start_date and end_date independently, an unset field has
\* no key in the serialized object (it is never null) and a set field has its
\* key with the RFC 3339 string of its value.
C1_DatesOmittedOrRfc3339 ==
    serJson.some =>
        \A i \in 1..Len(SerList) :
            /\ DateKeyAsClaimed(SerEntry(i), "start_date", SerList[i].start_date)
            /\ DateKeyAsClaimed(SerEntry(i), "end_date", SerList[i].end_date)

\* C1 witness: an entry with start_date set and end_date unset was serialized.
C1_Witness ==
    /\ serJson.some
    /\ \E i \in 1..Len(SerList) :
          /\ SerList[i].start_date.some /\ ~SerList[i].end_date.some
          /\ DOMAIN SerEntry(i) = {"adjustment", "start_date"}
          /\ SerEntry(i)["start_date"] = JStr("2024-01-01T00:00:00Z")

PlaceholderKeys == {"add", "edit", "edit_adjustments"}

C3_FourKeysAlways ==
    serJson.some =>
        /\ serJson.v.t = "object"
        /\ DOMAIN SerBody = {"add_adjustments", "add", "edit", "edit_adjustments"}
        /\ \A k \in DOMAIN SerBody : SerBody[k].t = "array"

\* C3 witness: the Default value was serialized.
C3_Witness ==
    /\ serJson.some
    /\ serParams = DefaultParams
    /\ \A k \in {"add_adjustments", "add", "edit", "edit_adjustments"} :
          SerBody[k] = JArr(<<>>)

IdsAsClaimed(o, a) ==
    /\ o["applies_to_price_ids"].t = "array"
    /\ Len(o["applies_to_price_ids"].v) = Len(a.applies_to_price_ids)
    /\ \A n \in 1..Len(a.applies_to_price_ids) :
          o["applies_to_price_ids"].v[n] = JStr(a.applies_to_price_ids[n])

AmountDiscountAsClaimed(o, a) ==
    /\ DOMAIN o = {"adjustment_type", "applies_to_price_ids", "amount_discount"}
    /\ o["adjustment_type"] = JStr("amount_discount")
    /\ IdsAsClaimed(o, a)
    /\ o["amount_discount"].t = "string"
    /\ o["amount_discount"].v = a.amount_discount

PercentageDiscountShape(o, a) ==
    /\ DOMAIN o = {"adjustment_type", "applies_to_price_ids", "percentage_discount"}
    /\ o["adjustment_type"] = JStr("percentage_discount")
    /\ IdsAsClaimed(o, a)

\* C4 as stated: the tag is the variant's literal, the other keys are the
\* variant's fields, percentage_discount is a JSON number and amount_discount
\* a JSON string.
C4_TagAndFieldsNumberAlways ==
    serJson.some =>
        \A i \in 1..Len(SerList) :
            LET a == SerList[i].adjustment
                o == SerAdjustment(i)
            IN IF a.variant = "PercentageDiscount"
               THEN /\ PercentageDiscountShape(o, a)
                    /\ o["percentage_discount"].t = "number"
               ELSE AmountDiscountAsClaimed(o, a)

\* C4 amended: as stated, except that percentage_discount is a JSON number
\* only for a finite f64 and is null for NaN and the infinities.
C4_TagAndFields ==
    serJson.some =>
        \A i \in 1..Len(SerList) :
            LET a == SerList[i].adjustment
                o == SerAdjustment(i)
            IN IF a.variant = "PercentageDiscount"
               THEN /\ PercentageDiscountShape(o, a)
                    /\ IF a.percentage_discount \in {"NaN", "inf", "-inf"}
                       THEN o["percentage_discount"].t = "null"
                       ELSE /\ o["percentage_discount"].t = "number"
                            /\ o["percentage_discount"].v = a.percentage_discount
               ELSE AmountDiscountAsClaimed(o, a)

\* C4 witness: a NaN percentage discount and an amount discount of "10.00"
\* were serialized in one value.
C4_Witness ==
    /\ serJson.some
    /\ \E i, j \in 1..Len(SerList) :
          /\ SerList[i].adjustment.variant = "PercentageDiscount"
          /\ SerList[i].adjustment.percentage_discount = "NaN"
          /\ SerAdjustment(i)["percentage_discount"] = JNull
          /\ SerList[j].adjustment.variant = "AmountDiscount"
          /\ SerAdjustment(j)["amount_discount"] = JStr("10.00")

\* C9: the add_adjustments array has the length of the list and its i-th
\* element is the serialization of the i-th entry.
C9_AdjustmentsInOrder ==
    serJson.some =>
        /\ SerBody["add_adjustments"].t = "array"
        /\ Len(SerBody["add_adjustments"].v) = Len(SerList)
        /\ \A i \in 1..Len(SerList) :
              SerBody["add_adjustments"].v[i] =
                  SerializeAddAdjustmentIntervalParams(SerList[i])

\* C9 witness: a list of two different entries was serialized.
C9_Witness ==
    /\ serJson.some
    /\ Len(SerList) = 2
    /\ SerList[1] # SerList[2]
    /\ SerBody["add_adjustments"].v[1] # SerBody["add_adjustments"].v[2]

(***************************************************************************)
(* Properties of Price, checked under SpecPrice.                           *)
(***************************************************************************)
\* C10: deserializing the serialization of a Price gives the Price back; id
\* is written as a string, and an unset external_price_id is written as a
\* present null key and read back as unset.
C10_PriceRoundTrip ==
    /\ priceJson.some =>
          /\ DOMAIN priceJson.v.v = {"id", "external_price_id"}
          /\ priceJson.v.v["id"] = JStr(price.id)
          /\ ~price.external_price_id.some =>
                priceJson.v.v["external_price_id"].t = "null"
    /\ priceBack.some =>
          /\ priceBack.v.ok
          /\ priceBack.v.v = price

\* C10 witness: a Price with external_price_id unset went through both
\* directions.
C10_Witness ==
    /\ priceBack.some
    /\ ~price.external_price_id.some
    /\ priceJson.v.v["external_price_id"] = JNull
    /\ priceBack.v = Ok(price)

(***************************************************************************)
(* Properties of add_edit_price_intervals, checked under Spec.             *)
(***************************************************************************)
Args(c) == calls[c].args.v

\* The request the claims expect for the arguments of invocation c.
ExpectedRequest(c) ==
    [method |-> "POST",
     path |-> client.base \o
              <<"subscriptions", Args(c).subscription_id, "price_intervals">>,
     body |-> Some(SerializeAddEditPriceIntervalParams(Args(c).params))]

\* C5: every request handed to send_request is a POST whose path is the base
\* path followed by subscriptions, the subscription_id as given and
\* price_intervals, and whose body is the JSON serialization of params.
C5_RequestShape ==
    \A c \in Calls :
        \A i \in 1..Len(sends[c]) : sends[c][i] = ExpectedRequest(c)

\* C5 witness: a request for "sub_123" with one adjustment was handed over.
C5_Witness ==
    \E c \in Calls :
        /\ Len(sends[c]) = 1
        /\ Args(c).subscription_id = "sub_123"
        /\ Args(c).params.add_adjustments # <<>>
        /\ sends[c][1].path = <<"v1", "subscriptions", "sub_123", "price_intervals">>
        /\ sends[c][1].body.v.v["add_adjustments"].v # <<>>

\* C6: an invocation hands no request to send_request before it reaches the
\* call, never a second one, and exactly one once it has returned, with Ok or
\* with Err.
C6_ExactlyOneSend ==
    \A c \in Calls :
        /\ Len(sends[c]) <= 1
        /\ calls[c].pc \in {"awaiting", "resolved", "done"} => Len(sends[c]) = 1

\* C6 witness: an invocation returned an error after one request.
C6_Witness ==
    \E c \in Calls :
        /\ calls[c].pc = "done"
        /\ ~calls[c].result.v.ok
        /\ Len(sends[c]) = 1

\* C7: a returned invocation reports Ok(subscription) exactly when
\* send_request gave that subscription, and otherwise the error of
\* send_request with its kind; no result exists before the return.
C7_ResultIsSendResult ==
    \A c \in Calls :
        /\ calls[c].pc # "done" => ~calls[c].result.some
        /\ calls[c].pc = "done" =>
              LET res == calls[c].res.v
                  out == calls[c].result.v
              IN /\ out.ok <=> res.ok
                 /\ res.ok => out.v = res.v
                 /\ ~res.ok => out.err = res.err

\* C7 witness: a decode failure and a subscription were both returned.
C7_Witness ==
    \E c, d \in Calls :
        /\ calls[c].pc = "done" /\ calls[c].result.v = Err("Decode")
        /\ calls[d].pc = "done" /\ calls[d].result.v = Ok("subscription_v2")

\* C8: invocations do not interact. Every step leaves the client and the
\* arguments of every invocation as they were, changes the state of at most
\* one invocation, sends the request determined by that invocation's own
\* arguments and returns the result determined by the response to its own
\* request.
C8_NoInteraction ==
    [][/\ client' = client
       /\ \A c \in Calls :
             /\ calls[c].args.some => calls'[c].args = calls[c].args
             /\ (calls'[c] # calls[c] \/ sends'[c] # sends[c]) =>
                   \A d \in Calls \ {c} :
                       calls'[d] = calls[d] /\ sends'[d] = sends[d]
             /\ Len(sends'[c]) > Len(sends[c]) =>
                   sends'[c][Len(sends'[c])] = ExpectedRequest(c)
             /\ (calls'[c].result.some /\ ~calls[c].result.some) =>
                   calls'[c].result.v = calls[c].res.v
      ]_vars

\* C8 witness: two invocations with different arguments were in progress
\* together, one returned and one still awaiting its response.
C8_Witness ==
    \E c, d \in Calls :
        /\ calls[c].pc = "done"
        /\ calls[d].pc = "awaiting"
        /\ Args(c).subscription_id # Args(d).subscription_id
        /\ Args(c).params # Args(d).params

=============================================================================
